---- MODULE Spec2Model ----
(***************************************************************************)
(* A model of openhgnn/models/HAN.py: the model builder                    *)
(* (HAN.build_model_from_args), the model (HAN.__init__, HAN.forward) and  *)
(* the aggregation layer with its subgraph cache (HANLayer.__init__,       *)
(* HANLayer.forward).                                                      *)
(*                                                                         *)
(* Tensors are modelled by their shapes, graph objects by their identity   *)
(* (a number) plus the part of their content the code reads, and a         *)
(* projected subgraph by the graph object and the metapath it was          *)
(* projected from.                                                         *)
(***************************************************************************)
EXTENDS Naturals, Sequences, FiniteSets

VARIABLES
    graphs,     \* graph object -> what the code reads of it (edge types, features)
    hg,         \* build_model_from_args: hg.canonical_etypes
    args,       \* build_model_from_args: args
    model,      \* the HAN instance
    ret,        \* what the last HAN.forward call did
    supplied,   \* HANLayer.__init__: the meta_paths argument
    layer,      \* the HANLayer instance
    last,       \* what the last (serial) HANLayer.forward call did
    raised,     \* some projection of a HANLayer.forward call has raised
    exclusive,  \* a lock is held around HANLayer.forward
    lock,       \* the holder of that lock
    frames      \* caller -> the local state of its HANLayer.forward call

vars == <<graphs, hg, args, model, ret, supplied, layer, last, raised,
          exclusive, lock, frames>>

(***************************************************************************)
(* Bounds of the model.                                                    *)
(***************************************************************************)
NumGraphs == 2
MaxMetaPaths == 2
MaxSchemaLen == 3
MaxLayers == 2
NumCallers == 2

\* Python's None where a graph object or a caller is expected.
None == 0
Graphs == 1..NumGraphs
Callers == 1..NumCallers

(***************************************************************************)
(* Canonical edge types (source category, relation, destination category). *)
(***************************************************************************)
Write == <<"author", "write", "paper">>
WrittenBy == <<"paper", "written-by", "author">>
Review == <<"author", "review", "paper">>
CoAuthor == <<"author", "co-author", "author">>
PublishedIn == <<"paper", "published-in", "venue">>
ETypes == {Write, WrittenBy, Review, CoAuthor, PublishedIn}
Categories == {"author", "paper"}
Widths == {1, 2}
Heads == {1, 2}

RECURSIVE SeqsUpTo(_, _)
SeqsUpTo(S, n) ==
    IF n = 0 THEN {<<>>}
    ELSE LET shorter == SeqsUpTo(S, n - 1)
         IN  shorter \cup {Append(s, x) : s \in shorter, x \in S}

Range(s) == {s[i] : i \in 1..Len(s)}
NoRepeat(s) == \A i, j \in 1..Len(s) : s[i] = s[j] => i = j

\* hg.canonical_etypes lists every edge type of the graph once.
Schemas == {s \in SeqsUpTo(ETypes, MaxSchemaLen) : NoRepeat(s)}

(***************************************************************************)
(* HAN.build_model_from_args, lines 29-36: the two nested loops.           *)
(***************************************************************************)
PairMatchesNoSelfLoopTest(etype, dst_e) ==
    etype[1] = dst_e[3] /\ etype[3] = dst_e[1]

PairMatches(etype, dst_e) ==
    /\ etype[1] = dst_e[3] /\ etype[3] = dst_e[1]
    /\ etype[1] # etype[3]

RECURSIVE InnerLoop(_, _, _, _)
InnerLoop(etypes, etype, j, mps) ==
    IF j > Len(etypes) THEN mps
    ELSE InnerLoop(etypes, etype, j + 1,
                   IF PairMatches(etype, etypes[j])
                   THEN Append(mps, <<etype, etypes[j]>>)
                   ELSE mps)

RECURSIVE OuterLoop(_, _, _, _)
OuterLoop(etypes, category, i, mps) ==
    IF i > Len(etypes) THEN mps
    ELSE OuterLoop(etypes, category, i + 1,
                   IF etypes[i][1] = category
                   THEN InnerLoop(etypes, etypes[i], 1, mps)
                   ELSE mps)

EnumerateMetaPaths(etypes, category) == OuterLoop(etypes, category, 1, <<>>)

(***************************************************************************)
(* HANLayer.__init__, lines 84-97.                                         *)
(***************************************************************************)
\* dgl's GATConv(in_feats, out_feats, num_heads, ...): branch i of the layer.
GATConv(i, in_size, out_size, layer_num_heads) ==
    [id |-> i, in_feats |-> in_size, out_feats |-> out_size,
     num_heads |-> layer_num_heads]

GatLayersPerDistinctMetaPath(meta_paths, in_size, out_size, layer_num_heads) ==
    [i \in 1..Cardinality(Range(meta_paths)) |->
        GATConv(i, in_size, out_size, layer_num_heads)]

GatLayers(meta_paths, in_size, out_size, layer_num_heads) ==
    [i \in 1..Len(meta_paths) |-> GATConv(i, in_size, out_size, layer_num_heads)]

\* list(tuple(meta_path) for meta_path in meta_paths)
TupleOf(meta_path) == [k \in 1..Len(meta_path) |-> meta_path[k]]
TupleList(meta_paths) == [i \in 1..Len(meta_paths) |-> TupleOf(meta_paths[i])]

EmptyCache == [mp \in {} |-> None]

HANLayerInit(meta_paths, in_size, out_size, layer_num_heads) ==
    [gat_layers |-> GatLayers(meta_paths, in_size, out_size, layer_num_heads),
     semantic_attention |-> [in_size |-> out_size * layer_num_heads],
     meta_paths |-> TupleList(meta_paths),
     cached_graph |-> None,
     cached_coalesced_graph |-> EmptyCache]

(***************************************************************************)
(* HANLayer.forward, lines 99-114, statement by statement.                 *)
(***************************************************************************)
\* line 102
NeedsRecomputeOnlyWhenEmpty(L, g) == L.cached_graph = None
NeedsRecomputeAlways(L, g) == TRUE

NeedsRecompute(L, g) == L.cached_graph = None \/ L.cached_graph # g

SetCachedGraphForgotten(L, g) == L

\* line 103
SetCachedGraph(L, g) == [L EXCEPT !.cached_graph = g]

\* line 104
ClearCache(L) == [L EXCEPT !.cached_coalesced_graph = EmptyCache]

\* dgl.metapath_reachable_graph(g, meta_path) raises when the graph has no
\* edge type of the metapath; otherwise it returns the subgraph of g along it.
ProjectionRaises(g, meta_path) ==
    \E k \in 1..Len(meta_path) : meta_path[k] \notin graphs[g].etypes

metapath_reachable_graph(g, meta_path) == [src |-> g, mp |-> meta_path]

\* line 106: self._cached_coalesced_graph[meta_path] = ...
StoreProjection(L, meta_path, sub) ==
    [L EXCEPT !.cached_coalesced_graph =
        [k \in (DOMAIN @) \cup {meta_path} |-> IF k = meta_path THEN sub ELSE @[k]]]

\* lines 105-107
RECURSIVE ProjectLoop(_, _, _)
ProjectLoop(L, g, i) ==
    IF i > Len(L.meta_paths) THEN [layer |-> L, nproj |-> i - 1, raised |-> FALSE]
    ELSE IF ProjectionRaises(g, L.meta_paths[i])
         THEN [layer |-> L, nproj |-> i, raised |-> TRUE]
         ELSE ProjectLoop(StoreProjection(L, L.meta_paths[i],
                              metapath_reachable_graph(g, L.meta_paths[i])),
                          g, i + 1)

\* line 111: GATConv's forward on (new_g, h) needs h of width in_feats and
\* returns (N, num_heads, out_feats); .flatten(1) makes it (N, num_heads * out_feats).
GATConvRaises(conv, h) == h[2] # conv.in_feats

GATConvFlat(conv, new_g, h) ==
    [conv |-> conv.id, on |-> new_g, h |-> h,
     shape |-> <<h[1], conv.num_heads * conv.out_feats>>]

PrependEmbedding(embs, e) == <<e>> \o embs

\* line 111: semantic_embeddings.append(...)
AppendEmbedding(embs, e) == Append(embs, e)

\* lines 109-111
RECURSIVE ConvLoop(_, _, _, _, _)
ConvLoop(L, h, i, embs, used) ==
    IF i > Len(L.meta_paths) THEN [outcome |-> "ok", embs |-> embs, used |-> used]
    ELSE IF L.meta_paths[i] \notin DOMAIN L.cached_coalesced_graph
         THEN [outcome |-> "KeyError", embs |-> embs, used |-> used]
    ELSE IF i > Len(L.gat_layers)
         THEN [outcome |-> "IndexError", embs |-> embs, used |-> used]
    ELSE LET new_g == L.cached_coalesced_graph[L.meta_paths[i]]
         IN  IF GATConvRaises(L.gat_layers[i], h)
             THEN [outcome |-> "ShapeError", embs |-> embs,
                   used |-> Append(used, new_g)]
             ELSE ConvLoop(L, h, i + 1,
                           AppendEmbedding(embs, GATConvFlat(L.gat_layers[i], new_g, h)),
                           Append(used, new_g))

\* line 112: torch.stack raises on an empty list of tensors.
StackAcceptsEmpty(embs) == FALSE

StackRaises(embs) == Len(embs) = 0

\* line 112: (N, D*K) tensors stacked along a new axis 1: (N, M, D*K)
Stack(embs) ==
    IF embs = <<>> THEN <<0, 0, 0>>
    ELSE <<embs[1].shape[1], Len(embs), embs[1].shape[2]>>

\* line 114: the combiner maps (N, M, F) to (N, F) and needs F = its in_size.
SemanticAttentionRaises(sem, stacked) == stacked[3] # sem.in_size
SemanticAttention(sem, stacked) == <<stacked[1], stacked[3]>>

NoCall ==
    [g |-> None, prev |-> None, prev2 |-> None, h |-> <<>>, outcome |-> "none", nproj |-> 0,
     used |-> <<>>, stack |-> <<>>, out |-> <<>>]

\* The whole call: the layer after it, and what it did.
LayerForward(L, g, h) ==
    LET recompute == NeedsRecompute(L, g)
        p == IF recompute
             THEN ProjectLoop(ClearCache(SetCachedGraph(L, g)), g, 1)
             ELSE [layer |-> L, nproj |-> 0, raised |-> FALSE]
        c == ConvLoop(p.layer, h, 1, <<>>, <<>>)
        res == [NoCall EXCEPT !.g = g, !.h = h, !.nproj = p.nproj]
    IN  IF p.raised
        THEN [layer |-> p.layer, res |-> [res EXCEPT !.outcome = "DGLError"]]
        ELSE IF c.outcome # "ok"
        THEN [layer |-> p.layer,
              res |-> [res EXCEPT !.outcome = c.outcome, !.used = c.used]]
        ELSE IF StackRaises(c.embs)
        THEN [layer |-> p.layer,
              res |-> [res EXCEPT !.outcome = "StackError", !.used = c.used]]
        ELSE IF SemanticAttentionRaises(p.layer.semantic_attention, Stack(c.embs))
        THEN [layer |-> p.layer,
              res |-> [res EXCEPT !.outcome = "ShapeError", !.used = c.used,
                                  !.stack = c.embs]]
        ELSE [layer |-> p.layer,
              res |-> [res EXCEPT !.outcome = "returned", !.used = c.used,
                                  !.stack = c.embs,
                                  !.out = SemanticAttention(
                                              p.layer.semantic_attention,
                                              Stack(c.embs))]]

(***************************************************************************)
(* Idle values of the parts of the state a specification does not use.     *)
(***************************************************************************)
NoArgs == [category |-> "", num_heads |-> <<>>, in_dim |-> 0, hidden_dim |-> 0,
           out_dim |-> 0]
NoModel == [built |-> FALSE, category |-> "", layers |-> <<>>,
            linear |-> [in_features |-> 0, out_features |-> 0]]
NoRet == [g |-> None, prev |-> None, outcome |-> "none", keys |-> {}, shape |-> <<>>,
          widths |-> <<>>]
NoLayer == HANLayerInit(<<>>, 0, 0, 0)
IdleFrame == [pc |-> "idle", g |-> None, h |-> <<>>, i |-> 0, embs |-> <<>>,
              used |-> <<>>, outcome |-> "none"]
IdleFrames == [t \in Callers |-> IdleFrame]

(***************************************************************************)
(* The layer on its own, called serially: HANLayer(meta_paths, ...) with   *)
(* any list of metapaths (repeats included), then forward(g, h) with any   *)
(* graph object and any feature width.                                     *)
(***************************************************************************)
MetaPathPool == {<<Write, WrittenBy>>, <<Review, WrittenBy>>}
MetaPathLists == SeqsUpTo(MetaPathPool, MaxMetaPaths)
LayerArgs == {[in_size |-> w, out_size |-> 8, layer_num_heads |-> 2] : w \in Widths}
\* A graph either has every edge type or lacks the "review" relation.
LayerGraphStates ==
    {[etypes |-> E, n |-> 2, f |-> 1] : E \in {ETypes, ETypes \ {Review}}}

InitLayer ==
    /\ graphs \in [Graphs -> LayerGraphStates]
    /\ supplied \in MetaPathLists
    /\ \E a \in LayerArgs :
          layer = HANLayerInit(supplied, a.in_size, a.out_size, a.layer_num_heads)
    /\ last = NoCall
    /\ raised = FALSE
    /\ lock = None
    /\ frames = IdleFrames
    /\ hg = <<>> /\ args = NoArgs /\ model = NoModel /\ ret = NoRet

Init == InitLayer /\ exclusive = TRUE

\* One serial call layer(g, h), h of shape (number of target nodes, w).
Forward(g, w) ==
    LET r == LayerForward(layer, g, <<graphs[g].n, w>>)
    IN  /\ layer' = r.layer
        /\ last' = [r.res EXCEPT !.prev = last.g, !.prev2 = last.prev]
        /\ raised' = (raised \/ r.res.outcome = "DGLError")
        /\ UNCHANGED <<graphs, hg, args, model, ret, supplied, exclusive, lock,
                       frames>>

Next == \E g \in Graphs, w \in Widths : Forward(g, w)

Spec == Init /\ [][Next]_vars

(***************************************************************************)
(* Claims about the layer called serially (Spec).                          *)
(***************************************************************************)
Called == last.outcome # "none"
NumMetaPaths == Len(layer.meta_paths)

\* C1 as stated: a call with the graph object of the immediately preceding
\* call performs no projection; a call with another graph object, or the
\* first call, performs exactly len(meta_paths) projections.
C1_ExactProjectionCount ==
    Called => IF last.prev = last.g THEN last.nproj = 0
              ELSE last.nproj = NumMetaPaths

\* C1 amended: as stated, except that a call whose projection raises stops
\* at the raising projection: it has projected the metapaths before it, in
\* declared order, and none after it.
C1_ProjectionCountUntilRaise ==
    Called =>
        IF last.prev = last.g THEN last.nproj = 0
        ELSE IF last.outcome = "DGLError"
        THEN /\ last.nproj \in 1..NumMetaPaths
             /\ ProjectionRaises(last.g, layer.meta_paths[last.nproj])
             /\ \A k \in 1..(last.nproj - 1) :
                   ~ProjectionRaises(last.g, layer.meta_paths[k])
        ELSE last.nproj = NumMetaPaths

C1_Witness ==
    /\ last.prev \in Graphs /\ last.prev # last.g /\ last.prev2 = last.prev
    /\ NumMetaPaths = MaxMetaPaths
    /\ last.nproj = NumMetaPaths
    /\ last.outcome = "returned"

\* C2: between two calls the cache is either uninitialized (no cached graph,
\* empty map) or holds, for the graph in _cached_graph, an entry for every
\* configured metapath, each the projection of that graph.
C2_CacheNeverPartial ==
    \/ layer.cached_graph = None /\ DOMAIN layer.cached_coalesced_graph = {}
    \/ /\ layer.cached_graph \in Graphs
       /\ DOMAIN layer.cached_coalesced_graph = Range(layer.meta_paths)
       /\ \A mp \in DOMAIN layer.cached_coalesced_graph :
             layer.cached_coalesced_graph[mp] =
                 metapath_reachable_graph(layer.cached_graph, mp)

\* C4: in every state the layer has as many convolution branches as
\* metapaths were supplied, and its metapath list is the supplied one, the
\* same elements in the same order.
C4_BranchesAndMetaPathsFixed ==
    /\ Len(layer.gat_layers) = Len(supplied)
    /\ Len(layer.meta_paths) = Len(supplied)
    /\ \A i \in 1..Len(supplied) :
          /\ Len(layer.meta_paths[i]) = Len(supplied[i])
          /\ \A k \in 1..Len(supplied[i]) : layer.meta_paths[i][k] = supplied[i][k]

C4_Witness ==
    /\ Len(supplied) = MaxMetaPaths
    /\ \A i \in 1..Len(supplied) : supplied[i] = supplied[1]
    /\ last.prev \in Graphs /\ last.prev # last.g
    /\ last.outcome = "returned"
    /\ Len(layer.gat_layers) = MaxMetaPaths

\* C8: slot i of the stacked tensor handed to the combiner is the output of
\* convolution branch i on the cached projection of the i-th declared
\* metapath and the call's input features, repeated metapaths included.
C8_StackOrder ==
    (last.outcome = "returned" \/ Len(last.stack) > 0) =>
        /\ Len(last.stack) = NumMetaPaths
        /\ \A i \in 1..NumMetaPaths :
              /\ last.stack[i].conv = i
              /\ layer.gat_layers[i].id = i
              /\ last.stack[i].on.mp = layer.meta_paths[i]
              /\ last.stack[i].on = layer.cached_coalesced_graph[layer.meta_paths[i]]
              /\ last.stack[i].h = last.h

C8_Witness ==
    /\ last.outcome = "returned"
    /\ Len(last.stack) = MaxMetaPaths
    /\ \E i, j \in 1..NumMetaPaths : i # j /\ layer.meta_paths[i] = layer.meta_paths[j]
    /\ \E i, j \in 1..Len(last.stack) : last.stack[i].conv # last.stack[j].conv

\* C10: in serial use in which no projection has raised, every call reaches
\* the convolution stage with a cache entry for every configured metapath,
\* every entry it uses is the projection of the graph object of that very
\* call, and a call with another graph object than the call before it
\* recomputes, also when it returns to an earlier graph (G, G', G).
C10_SerialCacheIsOfCallGraph ==
    (Called /\ ~raised) =>
        /\ last.outcome \in {"returned", "ShapeError", "StackError"}
        /\ \A i \in 1..NumMetaPaths :
              /\ layer.meta_paths[i] \in DOMAIN layer.cached_coalesced_graph
              /\ layer.cached_coalesced_graph[layer.meta_paths[i]] =
                     metapath_reachable_graph(last.g, layer.meta_paths[i])
        /\ \A k \in 1..Len(last.used) :
              last.used[k] = metapath_reachable_graph(last.g, layer.meta_paths[k])
        /\ last.outcome = "returned" => Len(last.used) = NumMetaPaths
        /\ last.prev # last.g => last.nproj = NumMetaPaths

C10_Witness ==
    /\ ~raised
    /\ last.prev2 = last.g /\ last.prev \in Graphs /\ last.prev # last.g
    /\ last.outcome = "returned"
    /\ Len(last.used) = MaxMetaPaths
    /\ last.nproj = MaxMetaPaths

(***************************************************************************)
(* The layer called by several callers at once (SpecConc): each caller     *)
(* runs HANLayer.forward statement by statement on the shared layer, and   *)
(* the callers' statements interleave. With exclusive set, a caller takes  *)
(* a lock before line 100 and gives it back when its call ends: the lock   *)
(* the design asks of an implementation with real concurrency. The code    *)
(* itself takes none, which is exclusive = FALSE.                          *)
(***************************************************************************)
InitConc == InitLayer /\ exclusive \in BOOLEAN

Frame(t) == frames[t]
Goto(t, f) == frames' = [frames EXCEPT ![t] = f]
\* The call ends (it returns or raises): the lock, if any, is given back.
Leave(t, f, outcome) ==
    /\ Goto(t, [f EXCEPT !.pc = "idle", !.outcome = outcome])
    /\ lock' = IF exclusive THEN None ELSE lock

\* line 100, entering forward(g, h)
Call(t, g, w) ==
    /\ Frame(t).pc = "idle"
    /\ exclusive => lock = None
    /\ lock' = IF exclusive THEN t ELSE lock
    /\ Goto(t, [IdleFrame EXCEPT !.pc = "check", !.g = g, !.h = <<graphs[g].n, w>>])
    /\ UNCHANGED <<layer, raised>>

\* line 102
Check(t) ==
    /\ Frame(t).pc = "check"
    /\ Goto(t, IF NeedsRecompute(layer, Frame(t).g)
               THEN [Frame(t) EXCEPT !.pc = "set"]
               ELSE [Frame(t) EXCEPT !.pc = "conv", !.i = 1])
    /\ UNCHANGED <<layer, raised, lock>>

\* line 103
SetGraph(t) ==
    /\ Frame(t).pc = "set"
    /\ layer' = SetCachedGraph(layer, Frame(t).g)
    /\ Goto(t, [Frame(t) EXCEPT !.pc = "clear"])
    /\ UNCHANGED <<raised, lock>>

\* line 104
Clear(t) ==
    /\ Frame(t).pc = "clear"
    /\ layer' = ClearCache(layer)
    /\ Goto(t, [Frame(t) EXCEPT !.pc = "project", !.i = 1])
    /\ UNCHANGED <<raised, lock>>

\* lines 105-107, one iteration
Project(t) ==
    /\ Frame(t).pc = "project"
    /\ Frame(t).i <= Len(layer.meta_paths)
    /\ ~ProjectionRaises(Frame(t).g, layer.meta_paths[Frame(t).i])
    /\ layer' = StoreProjection(layer, layer.meta_paths[Frame(t).i],
                    metapath_reachable_graph(Frame(t).g, layer.meta_paths[Frame(t).i]))
    /\ Goto(t, [Frame(t) EXCEPT !.i = @ + 1])
    /\ UNCHANGED <<raised, lock>>

\* line 106 raising
ProjectRaise(t) ==
    /\ Frame(t).pc = "project"
    /\ Frame(t).i <= Len(layer.meta_paths)
    /\ ProjectionRaises(Frame(t).g, layer.meta_paths[Frame(t).i])
    /\ raised' = TRUE
    /\ Leave(t, Frame(t), "DGLError")
    /\ UNCHANGED layer

\* line 105, the loop ends
ProjectDone(t) ==
    /\ Frame(t).pc = "project"
    /\ Frame(t).i > Len(layer.meta_paths)
    /\ Goto(t, [Frame(t) EXCEPT !.pc = "conv", !.i = 1])
    /\ UNCHANGED <<layer, raised, lock>>

\* lines 109-111, one iteration: ConvLoop run on the metapaths up to the
\* i-th does iteration i and stops.
Conv(t) ==
    /\ Frame(t).pc = "conv"
    /\ Frame(t).i <= Len(layer.meta_paths)
    /\ LET f == Frame(t)
           step == ConvLoop([layer EXCEPT !.meta_paths = SubSeq(@, 1, f.i)],
                            f.h, f.i, f.embs, f.used)
       IN  IF step.outcome = "ok"
           THEN /\ Goto(t, [f EXCEPT !.i = @ + 1, !.embs = step.embs,
                                     !.used = step.used])
                /\ UNCHANGED lock
           ELSE Leave(t, [f EXCEPT !.used = step.used], step.outcome)
    /\ UNCHANGED <<layer, raised>>

\* lines 112-114
StackAndCombine(t) ==
    /\ Frame(t).pc = "conv"
    /\ Frame(t).i > Len(layer.meta_paths)
    /\ Leave(t, Frame(t),
             IF StackRaises(Frame(t).embs) THEN "StackError"
             ELSE IF SemanticAttentionRaises(layer.semantic_attention,
                                             Stack(Frame(t).embs))
             THEN "ShapeError"
             ELSE "returned")
    /\ UNCHANGED <<layer, raised>>

ConcFrame == UNCHANGED <<graphs, hg, args, model, ret, supplied, last, exclusive>>

NextConc ==
    \E t \in Callers :
        \/ \E g \in Graphs, w \in Widths : Call(t, g, w) /\ ConcFrame
        \/ Check(t) /\ ConcFrame
        \/ SetGraph(t) /\ ConcFrame
        \/ Clear(t) /\ ConcFrame
        \/ Project(t) /\ ConcFrame
        \/ ProjectRaise(t) /\ ConcFrame
        \/ ProjectDone(t) /\ ConcFrame
        \/ Conv(t) /\ ConcFrame
        \/ StackAndCombine(t) /\ ConcFrame

SpecConc == InitConc /\ [][NextConc]_vars

\* A pass ran a convolution branch on a subgraph projected from another
\* graph object than its own, or found no cache entry for a metapath.
StaleOrMissing(t) ==
    \/ Frame(t).outcome = "KeyError"
    \/ \E k \in 1..Len(Frame(t).used) : Frame(t).used[k].src # Frame(t).g

\* C9, the part a lock is said to guarantee: with a lock around the whole
\* check-recompute-and-read sequence, no pass runs a convolution branch on
\* a subgraph of another graph object or misses a cache entry.
C9_LockExcludesStaleOrMissing ==
    exclusive => \A t \in Callers : ~StaleOrMissing(t)

\* C9, the race: without the lock, and with no projection raising, two
\* interleaved passes reach such a state: a pass that returns after running
\* a branch on a subgraph of the other pass's graph, and a pass that finds
\* no cache entry. Both states are reachable under SpecConc.
C9_RaceReached ==
    /\ ~exclusive /\ ~raised
    /\ \E t \in Callers :
          /\ \E k \in 1..Len(Frame(t).used) : Frame(t).used[k].src # Frame(t).g
          /\ Frame(t).outcome = "returned"

C9_RaceMissesEntry ==
    ~exclusive /\ ~raised /\ \E t \in Callers : Frame(t).outcome = "KeyError"

\* With the lock, a state of that kind needs a projection that raised: this
\* holds under SpecConc.
C9_LockExcludesUnlessRaised ==
    (exclusive /\ ~raised) => \A t \in Callers : ~StaleOrMissing(t)

(***************************************************************************)
(* HAN.__init__, lines 44-52.                                              *)
(***************************************************************************)
LayerInSizeOwnHeads(l, in_size, hidden_size, num_heads) ==
    IF l = 1 THEN in_size ELSE hidden_size * num_heads[l]

\* lines 48 and 50: the declared input width of layer l (1-based)
LayerInSize(l, in_size, hidden_size, num_heads) ==
    IF l = 1 THEN in_size ELSE hidden_size * num_heads[l - 1]

HANInit(meta_paths, category, in_size, hidden_size, out_size, num_heads) ==
    [built |-> TRUE,
     category |-> category,
     layers |-> [l \in 1..Len(num_heads) |->
                    HANLayerInit(meta_paths,
                                 LayerInSize(l, in_size, hidden_size, num_heads),
                                 hidden_size, num_heads[l])],
     linear |-> [in_features |-> hidden_size * num_heads[Len(num_heads)],
                 out_features |-> out_size]]

\* HAN.build_model_from_args, lines 28-42
BuildModelFromArgs(a, etypes) ==
    HANInit(EnumerateMetaPaths(etypes, a.category), a.category, a.in_dim,
            a.hidden_dim, a.out_dim, a.num_heads)

(***************************************************************************)
(* HAN.forward, lines 54-60.                                               *)
(***************************************************************************)
\* line 56: g.nodes[self.category].data['h'], of shape (N, F); every graph
\* object here has features for the category.
CategoryFeatures(g) == <<graphs[g].n, graphs[g].f>>

\* lines 57-58: h = gnn(g, h) layer after layer; a layer that raises ends the call.
RECURSIVE LayersLoop(_, _, _, _, _)
LayersLoop(layers, g, h, l, widths) ==
    IF l > Len(layers)
    THEN [layers |-> layers, outcome |-> "ok", h |-> h, widths |-> widths]
    ELSE LET r == LayerForward(layers[l], g, h)
             after == [layers EXCEPT ![l] = r.layer]
         IN  IF r.res.outcome # "returned"
             THEN [layers |-> after, outcome |-> r.res.outcome, h |-> h,
                   widths |-> widths]
             ELSE LayersLoop(after, g, r.res.out, l + 1, Append(widths, r.res.out[2]))

\* line 60: nn.Linear needs an input of width in_features
LinearRaises(linear, h) == h[2] # linear.in_features
Linear(linear, h) == <<h[1], linear.out_features>>

HANForward(m, g) ==
    LET r == LayersLoop(m.layers, g, CategoryFeatures(g), 1, <<>>)
        after == [m EXCEPT !.layers = r.layers]
        res == [NoRet EXCEPT !.g = g, !.widths = r.widths]
    IN  IF r.outcome # "ok"
        THEN [model |-> after, ret |-> [res EXCEPT !.outcome = r.outcome]]
        ELSE IF LinearRaises(m.linear, r.h)
        THEN [model |-> after, ret |-> [res EXCEPT !.outcome = "ShapeError"]]
        ELSE [model |-> after,
              ret |-> [res EXCEPT !.outcome = "returned",
                                  !.keys = {m.category},
                                  !.shape = Linear(m.linear, r.h)]]

(***************************************************************************)
(* The model (SpecModel): built by build_model_from_args from a graph      *)
(* schema, then called with graph objects of that schema, so that every    *)
(* metapath the builder found can be projected.                            *)
(***************************************************************************)
HeadLists == SeqsUpTo(Heads, MaxLayers) \ {<<>>}
ArgsSet == [category : Categories, num_heads : HeadLists, in_dim : Widths,
            hidden_dim : Widths, out_dim : {3}]

\* The schemas here are made of the edge types among authors and papers.
ModelSchemas == {s \in Schemas : Range(s) \subseteq ETypes \ {PublishedIn}}

InitModel ==
    /\ hg \in ModelSchemas
    /\ args \in ArgsSet
    /\ \E fw \in [Graphs -> Widths] :
          graphs = [g \in Graphs |-> [etypes |-> Range(hg), n |-> g + 1, f |-> fw[g]]]
    /\ model = NoModel
    /\ ret = NoRet
    /\ supplied = <<>> /\ layer = NoLayer /\ last = NoCall /\ raised = FALSE
    /\ exclusive = TRUE /\ lock = None /\ frames = IdleFrames

ModelFrame == UNCHANGED <<graphs, hg, args, supplied, layer, last, raised,
                          exclusive, lock, frames>>

Build ==
    /\ ~model.built
    /\ model' = BuildModelFromArgs(args, hg)
    /\ UNCHANGED ret
    /\ ModelFrame

ModelForward(g) ==
    /\ model.built
    /\ model' = HANForward(model, g).model
    /\ ret' = [HANForward(model, g).ret EXCEPT !.prev = ret.g]
    /\ ModelFrame

NextModel == Build \/ \E g \in Graphs : ModelForward(g)

SpecModel == InitModel /\ [][NextModel]_vars

(***************************************************************************)
(* The builder on its own (SpecBuild): build_model_from_args on any schema *)
(* of the five edge types and any of the three categories.                 *)
(***************************************************************************)
BuildArgsSet == [category : Categories \cup {"venue"}, num_heads : HeadLists,
                 in_dim : {4}, hidden_dim : {8}, out_dim : {3}]

InitBuild ==
    /\ hg \in Schemas
    /\ args \in BuildArgsSet
    /\ graphs = [g \in Graphs |-> [etypes |-> Range(hg), n |-> g + 1, f |-> args.in_dim]]
    /\ model = NoModel
    /\ ret = NoRet
    /\ supplied = <<>> /\ layer = NoLayer /\ last = NoCall /\ raised = FALSE
    /\ exclusive = TRUE /\ lock = None /\ frames = IdleFrames

NextBuild == Build

SpecBuild == InitBuild /\ [][NextBuild]_vars

(***************************************************************************)
(* Claims about the builder (SpecBuild) and the model (SpecModel).         *)
(***************************************************************************)
\* The pairs the metapath rule asks for: e1 leaves the category, e2 starts
\* where e1 ends and closes back to the category, and e1 is no self-loop.
ValidPairsOf(etypes, category) ==
    {p \in {<<e1, e2>> : e1 \in Range(etypes), e2 \in Range(etypes)} :
        /\ p[1][1] = category
        /\ p[2][1] = p[1][3]
        /\ p[2][3] = category
        /\ p[1][3] # category}

ModelLayers == 1..Len(model.layers)

\* C3: the metapaths build_model_from_args hands to the constructor are
\* exactly the ordered pairs [e1, e2] of edge types of the schema with
\* e1.src = C, e2.src = e1.dst, e2.dst = C and e1.dst # C, each once; for
\* the schema {A->B, B->A} and category A that is the one pair [A->B, B->A].
C3_MetaPathsAreTheValidPairs ==
    model.built =>
        \A l \in ModelLayers :
            LET mps == model.layers[l].meta_paths
            IN  /\ Range(mps) = ValidPairsOf(hg, args.category)
                /\ NoRepeat(mps)
                /\ (Range(hg) = {Write, WrittenBy} /\ args.category = "author")
                      => mps = << <<Write, WrittenBy>> >>

C3_Witness ==
    /\ model.built
    /\ hg = <<WrittenBy, Write>> /\ args.category = "author"
    /\ \A l \in ModelLayers : model.layers[l].meta_paths = << <<Write, WrittenBy>> >>
    /\ Len(model.layers) = MaxLayers

\* C5: with at least one metapath and features of width in_size, forward
\* returns a mapping with the category as its one key and a value of shape
\* (N, out_size); layer l puts out width hidden_size * num_heads[l], which
\* is the declared input width of layer l+1, and the linear head takes
\* hidden_size * num_heads[L].
C5_OutputShape ==
    (/\ ret.outcome # "none"
     /\ Len(model.layers[1].meta_paths) >= 1
     /\ graphs[ret.g].f = args.in_dim) =>
        /\ ret.outcome = "returned"
        /\ ret.keys = {args.category}
        /\ ret.shape = <<graphs[ret.g].n, args.out_dim>>
        /\ Len(model.layers) = Len(args.num_heads)
        /\ Len(ret.widths) = Len(args.num_heads)
        /\ \A l \in ModelLayers :
              /\ ret.widths[l] = args.hidden_dim * args.num_heads[l]
              /\ l < Len(model.layers) =>
                    \A i \in 1..Len(model.layers[l + 1].gat_layers) :
                        model.layers[l + 1].gat_layers[i].in_feats = ret.widths[l]
        /\ model.linear.in_features =
               args.hidden_dim * args.num_heads[Len(args.num_heads)]

C5_Witness ==
    /\ ret.outcome = "returned"
    /\ Len(model.layers) = MaxLayers
    /\ args.num_heads[1] # args.num_heads[MaxLayers]
    /\ Len(model.layers[1].meta_paths) = 2
    /\ ret.shape = <<graphs[ret.g].n, args.out_dim>>

\* C6: when the schema has no valid metapath for the category, the model is
\* built all the same, its layers have no convolution branch, and every
\* forward pass, the first and every later one, with any graph, raises when
\* the empty list of embeddings is stacked; none returns.
C6_NoMetaPathNeverReturns ==
    (model.built /\ ValidPairsOf(hg, args.category) = {}) =>
        /\ \A l \in ModelLayers : Len(model.layers[l].gat_layers) = 0
        /\ ret.outcome \in {"none", "StackError"}
        /\ ret.outcome = "StackError" => ret.widths = <<>> /\ ret.keys = {}

C6_Witness ==
    /\ model.built /\ ValidPairsOf(hg, args.category) = {}
    /\ Len(hg) > 0
    /\ ret.outcome = "StackError"
    /\ ret.prev = ret.g
    /\ model.layers[1].cached_graph = ret.g

Reached(l, r) == l <= Len(r.widths) + 1

====
